---- MODULE Spec2Model ----
(***************************************************************************)
(* A model of gen_quiz_csv.py: the block splitter (parse_quiz_file), the   *)
(* question parser (parse_question), the markup translator                 *)
(* (format_question_text) and the writer of the rows (write_d2l_csv).      *)
(*                                                                         *)
(* A line of text is a sequence of one-character strings, so that the      *)
(* string operations of the source (strip, startswith, the regular         *)
(* expressions) are computed character by character.                       *)
(***************************************************************************)
EXTENDS Integers, Sequences, FiniteSets, TLC

(***************************************************************************)
(* Bounds of the model.                                                    *)
(***************************************************************************)
\* the longest document parse_quiz_file reads
MaxDocLines == 7
\* the longest line group parse_question reads
MaxBlockLines == 5
\* the most pieces a text given to format_question_text has
MaxTextPieces == 4
\* the longest list of questions write_d2l_csv is given
MaxQuestions == 3

(***************************************************************************)
(* Characters and the string helpers of Python that the source uses.      *)
(***************************************************************************)
NL == "\n"

\* the backquote character, which a TLA+ string cannot hold
Backtick == "backquote"

\* str.strip() and the regex class \s
Whitespace == {" ", "\t", "\n", "\r"}

\* the regex class \w, which decides the word boundary \b
WordChars ==
    {"A", "B", "C", "D", "E", "F", "G", "H", "I", "J", "K", "L", "M",
     "N", "O", "P", "Q", "R", "S", "T", "U", "V", "W", "X", "Y", "Z",
     "a", "b", "c", "d", "e", "f", "g", "h", "i", "j", "k", "l", "m",
     "n", "o", "p", "q", "r", "s", "t", "u", "v", "w", "x", "y", "z",
     "0", "1", "2", "3", "4", "5", "6", "7", "8", "9", "_"}

\* the regex class [A-F]
OptionLetters == {"A", "B", "C", "D", "E", "F"}

Drop(s, n) == SubSeq(s, n + 1, Len(s))

RECURSIVE LStrip(_)
LStrip(s) ==
    IF s # <<>> /\ Head(s) \in Whitespace THEN LStrip(Tail(s)) ELSE s

RECURSIVE RStrip(_)
RStrip(s) ==
    IF s # <<>> /\ s[Len(s)] \in Whitespace
    THEN RStrip(SubSeq(s, 1, Len(s) - 1))
    ELSE s

\* str.strip()
Strip(s) == RStrip(LStrip(s))

\* str.startswith(p)
StartsWith(s, p) == Len(s) >= Len(p) /\ SubSeq(s, 1, Len(p)) = p

\* p in s
Contains(s, p) ==
    \E i \in 1..(Len(s) - Len(p) + 1) : SubSeq(s, i, i + Len(p) - 1) = p

\* sep.join(parts)
RECURSIVE Join(_, _)
Join(parts, sep) ==
    IF parts = <<>> THEN <<>>
    ELSE IF Len(parts) = 1 THEN parts[1]
    ELSE parts[1] \o sep \o Join(Tail(parts), sep)

(***************************************************************************)
(* The literal texts the source matches lines against.                     *)
(***************************************************************************)
P_Fence == <<Backtick, Backtick, Backtick>>
P_Sep == <<"-", "-", "-">>
P_Hash2 == <<"#", "#">>
P_HeaderStart == <<"#", "#", " ">>
P_Trailer ==
    <<"#", "#", " ", "L", "e", "a", "r", "n", "i", "n", "g", " ",
      "O", "b", "j", "e", "c", "t", "i", "v", "e", "s">>
P_Flag ==
    <<"S", "h", "o", "r", "t", " ", "A", "n", "s", "w", "e", "r", " ",
      "Q", "u", "e", "s", "t", "i", "o", "n">>
P_FlagBold == <<"*", "*">> \o P_Flag \o <<":", "*", "*">>
P_Correct ==
    <<"C", "o", "r", "r", "e", "c", "t", " ", "A", "n", "s", "w", "e", "r">>
P_Feedback ==
    <<"O", "v", "e", "r", "a", "l", "l", " ",
      "F", "e", "e", "d", "b", "a", "c", "k", ":">>
P_Reference == <<"*", "R", "e", "f", "e", "r", "e", "n", "c", "e", ":">>
P_Note == <<"*", "N", "o", "t", "e", ":">>

(***************************************************************************)
(* The result of a regular-expression match: whether it matched, and the   *)
(* text of the group the source reads.                                     *)
(***************************************************************************)
NoMatch == [matched |-> FALSE, group |-> <<>>]
Match(g) == [matched |-> TRUE, group |-> g]

\* re.match(r"^##\s*(.+)$", stripped): the group is what follows "##" and
\* the whitespace after it; it needs one character at least.
HeaderMatch(stripped) ==
    IF StartsWith(stripped, P_Hash2) /\ LStrip(Drop(stripped, 2)) # <<>>
    THEN Match(LStrip(Drop(stripped, 2)))
    ELSE NoMatch

\* the part of a blockquote line after ">", whitespace, the keyword p
\* and whitespace: re.match(r"^>\s*<p>\s*(.+)$", stripped)
QuoteMatch(stripped, p) ==
    IF stripped # <<>> /\ Head(stripped) = ">"
       /\ StartsWith(LStrip(Tail(stripped)), p)
       /\ LStrip(Drop(LStrip(Tail(stripped)), Len(p))) # <<>>
    THEN Match(LStrip(Drop(LStrip(Tail(stripped)), Len(p))))
    ELSE NoMatch

\* re.match(r"^>\s*Correct Answers?:\s*(.+)$", stripped)
CorrectMatch(stripped) ==
    IF QuoteMatch(stripped, P_Correct \o <<"s", ":">>).matched
    THEN QuoteMatch(stripped, P_Correct \o <<"s", ":">>)
    ELSE QuoteMatch(stripped, P_Correct \o <<":">>)

\* re.match(r"^>\s*Overall Feedback:\s*(.+)$", stripped)
FeedbackMatch(stripped) == QuoteMatch(stripped, P_Feedback)

\* re.match(r"^([A-F])\.\s*(.+)$", stripped): group is the option text
OptionMatch(stripped) ==
    IF Len(stripped) >= 2 /\ stripped[1] \in OptionLetters
       /\ stripped[2] = "." /\ LStrip(Drop(stripped, 2)) # <<>>
    THEN Match(LStrip(Drop(stripped, 2)))
    ELSE NoMatch

\* whether r"\b([A-F])(?:\.|,|\s|$)" matches at position i of text
LetterAt(text, i) ==
    /\ text[i] \in OptionLetters
    /\ (i = 1 \/ text[i - 1] \notin WordChars)
    /\ (i = Len(text) \/ text[i + 1] \in ({".", ","} \cup Whitespace))

\* re.findall(r"\b([A-F])(?:\.|,|\s|$)", answer_text), from position i on
RECURSIVE FindLettersFrom(_, _)
FindLettersFrom(text, i) ==
    IF i > Len(text) THEN <<>>
    ELSE IF LetterAt(text, i)
         THEN <<text[i]>> \o FindLettersFrom(text, i + 2)
         ELSE FindLettersFrom(text, i + 1)

FindLetters(text) == FindLettersFrom(text, 1)

(***************************************************************************)
(* parse_question: the locals of the function, as one record, and one      *)
(* operator for each branch of its loop over the lines of a block.         *)
(***************************************************************************)
\* the value None
None == [type |-> "None"]

\* the locals of parse_question as it enters the loop
InitLocals ==
    [question_text_lines |-> <<>>,
     options |-> <<>>,
     correct_letters |-> <<>>,
     correct_explanation |-> <<>>,
     short_answer_text |-> <<>>,
     title |-> <<>>,
     is_short_answer |-> FALSE,
     in_code_block |-> FALSE,
     code_block_content |-> <<>>]

\* the closing delimiter: the fence, joined by newlines, goes to the body
CloseFence(st, line) ==
    [st EXCEPT !.in_code_block = FALSE,
               !.question_text_lines =
                   Append(@, Join(Append(st.code_block_content, line), <<NL>>)),
               !.code_block_content = <<>>]

\* the opening delimiter
OpenFence(st, line) ==
    [st EXCEPT !.in_code_block = TRUE, !.code_block_content = <<line>>]

\* a line inside the fence
CodeLine(st, line) ==
    [st EXCEPT !.code_block_content = Append(@, line)]

\* "## ..." sets the title
HeaderLine(st, line) ==
    [st EXCEPT !.title = Strip(HeaderMatch(Strip(line)).group)]

\* a variant that forgets the indicator
FlagLine_Dropped(st, line) == st

\* the short-answer indicator
FlagLine(st, line) == [st EXCEPT !.is_short_answer = TRUE]

\* "> Correct Answer(s): ...": the letters, or else the answer text
CorrectLine(st, line) ==
    LET answer_text == Strip(CorrectMatch(Strip(line)).group)
        letters == FindLetters(answer_text)
    IN  [st EXCEPT !.correct_letters = letters,
                   !.short_answer_text =
                       IF letters = <<>> THEN answer_text ELSE @]

\* a variant that keeps the first feedback of a block
FeedbackLine_FirstWins(st, line) ==
    IF st.correct_explanation # <<>> THEN st
    ELSE [st EXCEPT !.correct_explanation =
                        Strip(FeedbackMatch(Strip(line)).group)]

\* "> Overall Feedback: ..."
FeedbackLine(st, line) ==
    [st EXCEPT !.correct_explanation = Strip(FeedbackMatch(Strip(line)).group)]

\* "A. text": one more option, not yet correct
OptionLine(st, line) ==
    [st EXCEPT !.options =
        Append(@, [letter |-> Strip(line)[1],
                   text |-> Strip(OptionMatch(Strip(line)).group),
                   correct |-> FALSE])]

\* any other line is question text
TextLine(st, line) ==
    [st EXCEPT !.question_text_lines = Append(@, line)]

\* which branch of the loop a line takes, in the order the source tests them
LineKind(st, line) ==
    LET stripped == Strip(line) IN
    IF StartsWith(stripped, P_Fence)
    THEN (IF st.in_code_block THEN "close" ELSE "open")
    ELSE IF st.in_code_block THEN "code"
    ELSE IF stripped = <<>> \/ stripped = P_Sep THEN "skip"
    ELSE IF HeaderMatch(stripped).matched THEN "header"
    ELSE IF Contains(stripped, P_FlagBold) \/ Contains(stripped, P_Flag)
         THEN "flag"
    ELSE IF CorrectMatch(stripped).matched THEN "correct"
    ELSE IF FeedbackMatch(stripped).matched THEN "feedback"
    ELSE IF OptionMatch(stripped).matched THEN "option"
    ELSE IF StartsWith(stripped, P_Reference) \/ StartsWith(stripped, P_Note)
         THEN "reference"
    ELSE "text"

\* one iteration of the loop
ParseLine(st, line) ==
    LET kind == LineKind(st, line) IN
    CASE kind = "close" -> CloseFence(st, line)
      [] kind = "open" -> OpenFence(st, line)
      [] kind = "code" -> CodeLine(st, line)
      [] kind = "header" -> HeaderLine(st, line)
      [] kind = "flag" -> FlagLine(st, line)
      [] kind = "correct" -> CorrectLine(st, line)
      [] kind = "feedback" -> FeedbackLine(st, line)
      [] kind = "option" -> OptionLine(st, line)
      [] kind = "text" -> TextLine(st, line)
      [] OTHER -> st

\* a variant that knows the first declared letter only
MarkCorrect_FirstLetterOnly(options, correct_letters) ==
    [i \in 1..Len(options) |->
        IF correct_letters # <<>> /\ correct_letters[1] = options[i].letter
        THEN [options[i] EXCEPT !.correct = TRUE]
        ELSE options[i]]

\* "Mark correct options"
MarkCorrect(options, correct_letters) ==
    [i \in 1..Len(options) |->
        IF \E j \in 1..Len(correct_letters) :
               correct_letters[j] = options[i].letter
        THEN [options[i] EXCEPT !.correct = TRUE]
        ELSE options[i]]

\* sum(1 for o in options if o["correct"])
CorrectCount(options) ==
    Cardinality({i \in 1..Len(options) : options[i].correct})

\* a variant that takes one correct option for a multi-select already
QuestionType_AtLeastOne(is_short_answer, options) ==
    IF is_short_answer \/ options = <<>> THEN "SA"
    ELSE IF CorrectCount(options) >= 1 THEN "MS"
    ELSE "MC"

\* a variant that does not look at the short-answer flag
QuestionType_FlagIgnored(is_short_answer, options) ==
    IF options = <<>> THEN "SA"
    ELSE IF CorrectCount(options) > 1 THEN "MS"
    ELSE "MC"

\* "Determine question type"
QuestionType(is_short_answer, options) ==
    IF is_short_answer \/ options = <<>> THEN "SA"
    ELSE IF CorrectCount(options) > 1 THEN "MS"
    ELSE "MC"

\* "Build question text"
QuestionText(question_text_lines) == Strip(Join(question_text_lines, <<NL>>))

\* a variant that returns a question whose body is empty
Finish_KeepsEmpty(st, question_num) ==
    LET options == MarkCorrect(st.options, st.correct_letters)
        q_type == QuestionType(st.is_short_answer, options)
    IN  [num |-> question_num,
         type |-> q_type,
         title |-> st.title,
         text |-> QuestionText(st.question_text_lines),
         options |-> options,
         correct_explanation |->
             IF q_type = "SA" /\ st.short_answer_text # <<>>
                /\ st.correct_explanation = <<>>
             THEN st.short_answer_text
             ELSE st.correct_explanation,
         short_answer |->
             IF q_type = "SA" THEN st.short_answer_text ELSE <<>>]

\* a variant without the fallback of the feedback to the answer text
Finish_NoFallback(st, question_num) ==
    LET options == MarkCorrect(st.options, st.correct_letters)
        question_text == QuestionText(st.question_text_lines)
        q_type == QuestionType(st.is_short_answer, options)
    IN  IF question_text = <<>> THEN None
        ELSE [num |-> question_num,
              type |-> q_type,
              title |-> st.title,
              text |-> question_text,
              options |-> options,
              correct_explanation |-> st.correct_explanation,
              short_answer |->
                  IF q_type = "SA" THEN st.short_answer_text ELSE <<>>]

\* what parse_question does after its loop
Finish(st, question_num) ==
    LET options == MarkCorrect(st.options, st.correct_letters)
        question_text == QuestionText(st.question_text_lines)
        q_type == QuestionType(st.is_short_answer, options)
        correct_explanation ==
            IF q_type = "SA" /\ st.short_answer_text # <<>>
               /\ st.correct_explanation = <<>>
            THEN st.short_answer_text
            ELSE st.correct_explanation
    IN  IF question_text = <<>> THEN None
        ELSE [num |-> question_num,
              type |-> q_type,
              title |-> st.title,
              text |-> question_text,
              options |-> options,
              correct_explanation |-> correct_explanation,
              short_answer |->
                  IF q_type = "SA" THEN st.short_answer_text ELSE <<>>]

\* the loop of parse_question over the lines of a block
RECURSIVE ParseLines(_, _)
ParseLines(st, lines) ==
    IF lines = <<>> THEN st
    ELSE ParseLines(ParseLine(st, Head(lines)), Tail(lines))

\* parse_question(lines, question_num)
ParseQuestion(lines, question_num) ==
    IF lines = <<>> THEN None
    ELSE Finish(ParseLines(InitLocals, lines), question_num)

(***************************************************************************)
(* The lines the inputs are drawn from.                                    *)
(***************************************************************************)
LHeader == <<"#", "#", " ", "T", ":", " ", "S">>
LHeaderIndented == <<" ", "#", "#", " ", "U">>
LBody == <<"Q", "?">>
LBlank == <<>>
LSep == <<"-", "-", "-">>
LOptA == <<"A", ".", " ", "x">>
LOptB == <<"B", ".", " ", "y">>
LCorrectB == <<">", " ">> \o P_Correct \o <<":", " ", "B", ".", " ", "y">>
LCorrectAB == <<">", " ">> \o P_Correct \o <<"s", ":", " ", "A", ",", " ", "B">>
LCorrectText == <<">", " ">> \o P_Correct \o <<":", " ", "4", "2">>
LCorrectBThenA ==
    <<">", " ">> \o P_Correct \o <<":", " ", "B", ".", " ", "A">>
LCorrectEmpty == <<">", " ">> \o P_Correct \o <<":">>
LFeedback == <<">", " ">> \o P_Feedback \o <<" ", "o", "k">>
LFeedback2 == <<">", " ">> \o P_Feedback \o <<" ", "n", "o">>
LSubHeader == <<"#", "#", "#", " ", "S">>
LFlag == P_FlagBold
LFence == P_Fence
LFenceTagged == P_Fence \o <<"p", "y">>
LNote == P_Note \o <<" ", "n">>
LTrailer == P_Trailer

\* the lines of the documents parse_quiz_file reads
DocLines == {LHeader, LHeaderIndented, LBody, LOptA, LTrailer}

\* the lines of the blocks parse_question reads
BlockLines ==
    {LHeader, LBody, LBlank, LOptA, LOptB, LCorrectB, LCorrectAB,
     LCorrectText, LCorrectEmpty, LCorrectBThenA, LFeedback, LFeedback2,
     LSubHeader, LFlag, LFence, LNote}

\* the lines the fences of these blocks hold
FencedLines == {LBody, LOptA, LCorrectB}

(***************************************************************************)
(* The state: the locals of parse_quiz_file and of parse_question, the     *)
(* position of each in its code, and what each has read so far.            *)
(***************************************************************************)
VARIABLES
    pc,             \* parse_quiz_file: "loop", "last" (after the loop), "done"
    consumed,       \* the lines the loop of parse_quiz_file has read
    current_block,
    question_num,
    in_questions,
    questions,
    block_start,    \* the position in consumed of current_block's header
    emitted_from,   \* for each question of questions, its block's block_start
    qpc,            \* parse_question: "loop", "done"
    arg_num,        \* the argument question_num of parse_question
    nread,          \* how many lines the loop of parse_question has read
    st,             \* the locals of parse_question
    result,         \* what parse_question returned
    fences,         \* the fences read so far, each the lines of it in order
    flag_seen,      \* the loop took the short-answer branch
    last_correct,   \* the last line that took the correct-answer branch
    correct_seen,   \* how many lines took the correct-answer branch
    declared_after, \* how many options were read before that line
    feedback_lines, \* the lines that took the feedback branch, in order
    header_line,    \* the first line of the block, when it took the header
                    \* branch
    mpc,            \* format_question_text: the pass it is to apply next
    text,           \* the argument text of format_question_text
    fmt_result,     \* the local result of format_question_text
    code_blocks,    \* the local code_blocks of format_question_text
    wpc,            \* write_d2l_csv: "open", "loop", "done"
    csv_questions,  \* the argument questions of write_d2l_csv
    include_titles, \* the argument include_titles
    qi,             \* the position of the loop in csv_questions
    rows            \* the rows written so far

fvars ==
    <<pc, consumed, current_block, question_num, in_questions, questions,
      block_start, emitted_from>>
qvars ==
    <<qpc, arg_num, nread, st, result, fences, flag_seen, last_correct,
      correct_seen, declared_after, feedback_lines, header_line>>
mvars == <<mpc, text, fmt_result, code_blocks>>
wvars == <<wpc, csv_questions, include_titles, qi, rows>>
vars == <<fvars, qvars, mvars, wvars>>

(***************************************************************************)
(* parse_quiz_file                                                         *)
(***************************************************************************)
\* stripped.startswith("## ") and not
\* stripped.startswith("## Learning Objectives")
IsQuestionHeader(line) ==
    StartsWith(Strip(line), P_HeaderStart)
    /\ ~StartsWith(Strip(line), P_Trailer)

\* stripped.startswith("## Learning Objectives")
IsTrailer(line) == StartsWith(Strip(line), P_Trailer)

\* a variant that appends what parse_question returns, None included
FlushBlock_KeepsNone(qs, block, num) ==
    IF block # <<>> /\ num > 0
    THEN Append(qs, ParseQuestion(block, num))
    ELSE qs

\* questions after "if current_block and question_num > 0: q =
\* parse_question(...); if q: questions.append(q)"
FlushBlock(qs, block, num) ==
    IF block # <<>> /\ num > 0 /\ ParseQuestion(block, num) # None
    THEN Append(qs, ParseQuestion(block, num))
    ELSE qs

\* a variant that appends the last block whatever the list ends with
FlushLastBlock_NoDedupe(qs, block, num) ==
    IF block # <<>> /\ num > 0 /\ ParseQuestion(block, num) # None
    THEN Append(qs, ParseQuestion(block, num))
    ELSE qs

\* questions after "Handle last block if not ended by Learning Objectives"
FlushLastBlock(qs, block, num) ==
    IF block # <<>> /\ num > 0 /\ ParseQuestion(block, num) # None
       /\ (qs = <<>> \/ qs[Len(qs)].num # ParseQuestion(block, num).num)
    THEN Append(qs, ParseQuestion(block, num))
    ELSE qs

\* emitted_from after questions became qs
Emitted(qs) ==
    IF Len(qs) > Len(questions)
    THEN Append(emitted_from, block_start)
    ELSE emitted_from

FileInit ==
    /\ pc = "loop"
    /\ consumed = <<>>
    /\ current_block = <<>>
    /\ question_num = 0
    /\ in_questions = FALSE
    /\ questions = <<>>
    /\ block_start = 0
    /\ emitted_from = <<>>

\* a variant that numbers a block by the questions kept so far
ReadHeader_ReuseNumber(line) ==
    /\ pc = "loop"
    /\ Len(consumed) < MaxDocLines
    /\ IsQuestionHeader(line)
    /\ consumed' = Append(consumed, line)
    /\ in_questions' = TRUE
    /\ questions' = FlushBlock(questions, current_block, question_num)
    /\ emitted_from' = Emitted(questions')
    /\ question_num' = Len(questions') + 1
    /\ current_block' = <<line>>
    /\ block_start' = Len(consumed) + 1
    /\ UNCHANGED pc
    /\ UNCHANGED <<qvars, mvars, wvars>>

\* a variant that starts the block with the stripped header line
ReadHeader_Stripped(line) ==
    /\ pc = "loop"
    /\ Len(consumed) < MaxDocLines
    /\ IsQuestionHeader(line)
    /\ consumed' = Append(consumed, line)
    /\ in_questions' = TRUE
    /\ questions' = FlushBlock(questions, current_block, question_num)
    /\ emitted_from' = Emitted(questions')
    /\ question_num' = question_num + 1
    /\ current_block' = <<Strip(line)>>
    /\ block_start' = Len(consumed) + 1
    /\ UNCHANGED pc
    /\ UNCHANGED <<qvars, mvars, wvars>>

\* the loop reads a question header
ReadHeader(line) ==
    /\ pc = "loop"
    /\ Len(consumed) < MaxDocLines
    /\ IsQuestionHeader(line)
    /\ consumed' = Append(consumed, line)
    /\ in_questions' = TRUE
    /\ questions' = FlushBlock(questions, current_block, question_num)
    /\ emitted_from' = Emitted(questions')
    /\ question_num' = question_num + 1
    /\ current_block' = <<line>>
    /\ block_start' = Len(consumed) + 1
    /\ UNCHANGED pc
    /\ UNCHANGED <<qvars, mvars, wvars>>

\* a variant that does not leave the loop
ReadTrailer_NoBreak(line) ==
    /\ pc = "loop"
    /\ Len(consumed) < MaxDocLines
    /\ ~IsQuestionHeader(line)
    /\ IsTrailer(line)
    /\ consumed' = Append(consumed, line)
    /\ questions' = FlushBlock(questions, current_block, question_num)
    /\ emitted_from' = Emitted(questions')
    /\ UNCHANGED <<pc, current_block, question_num, in_questions, block_start>>
    /\ UNCHANGED <<qvars, mvars, wvars>>

\* the loop reads the trailer header and breaks
ReadTrailer(line) ==
    /\ pc = "loop"
    /\ Len(consumed) < MaxDocLines
    /\ ~IsQuestionHeader(line)
    /\ IsTrailer(line)
    /\ consumed' = Append(consumed, line)
    /\ questions' = FlushBlock(questions, current_block, question_num)
    /\ emitted_from' = Emitted(questions')
    /\ pc' = "last"
    /\ UNCHANGED <<current_block, question_num, in_questions, block_start>>
    /\ UNCHANGED <<qvars, mvars, wvars>>

\* the loop reads a line of the current block
ReadBlockLine(line) ==
    /\ pc = "loop"
    /\ Len(consumed) < MaxDocLines
    /\ ~IsQuestionHeader(line)
    /\ ~IsTrailer(line)
    /\ in_questions
    /\ consumed' = Append(consumed, line)
    /\ current_block' = Append(current_block, line)
    /\ UNCHANGED <<pc, question_num, in_questions, questions, block_start,
                   emitted_from>>
    /\ UNCHANGED <<qvars, mvars, wvars>>

\* the loop reads a line before the first header
ReadPreamble(line) ==
    /\ pc = "loop"
    /\ Len(consumed) < MaxDocLines
    /\ ~IsQuestionHeader(line)
    /\ ~IsTrailer(line)
    /\ ~in_questions
    /\ consumed' = Append(consumed, line)
    /\ UNCHANGED <<pc, current_block, question_num, in_questions, questions,
                   block_start, emitted_from>>
    /\ UNCHANGED <<qvars, mvars, wvars>>

\* the document has no more lines: the loop ends
EndOfDocument ==
    /\ pc = "loop"
    /\ pc' = "last"
    /\ UNCHANGED <<consumed, current_block, question_num, in_questions,
                   questions, block_start, emitted_from>>
    /\ UNCHANGED <<qvars, mvars, wvars>>

\* after the loop: the last block, and return questions
HandleLastBlock ==
    /\ pc = "last"
    /\ questions' = FlushLastBlock(questions, current_block, question_num)
    /\ emitted_from' = Emitted(questions')
    /\ pc' = "done"
    /\ UNCHANGED <<consumed, current_block, question_num, in_questions,
                   block_start>>
    /\ UNCHANGED <<qvars, mvars, wvars>>

Next ==
    \/ \E line \in DocLines : ReadHeader(line)
    \/ \E line \in DocLines : ReadTrailer(line)
    \/ \E line \in DocLines : ReadBlockLine(line)
    \/ \E line \in DocLines : ReadPreamble(line)
    \/ EndOfDocument
    \/ HandleLastBlock

QuestionIdle ==
    /\ qpc = "idle"
    /\ arg_num = 0
    /\ nread = 0
    /\ st = InitLocals
    /\ result = None
    /\ fences = <<>>
    /\ flag_seen = FALSE
    /\ last_correct = <<>>
    /\ correct_seen = 0
    /\ declared_after = 0
    /\ feedback_lines = <<>>
    /\ header_line = <<>>

\* format_question_text is not running
FormatIdle ==
    /\ mpc = "idle"
    /\ text = <<>>
    /\ fmt_result = <<>>
    /\ code_blocks = <<>>

\* write_d2l_csv is not running
WriterIdle ==
    /\ wpc = "idle"
    /\ csv_questions = <<>>
    /\ include_titles = TRUE
    /\ qi = 0
    /\ rows = <<>>

Init == FileInit /\ QuestionIdle /\ FormatIdle /\ WriterIdle


\* parse_quiz_file on every document of at most MaxDocLines lines
Spec == Init /\ [][Next]_vars

(***************************************************************************)
(* parse_question, one action for each branch of its loop.                 *)
(***************************************************************************)
QuestionInit ==
    /\ qpc = "loop"
    /\ arg_num = 1
    /\ nread = 0
    /\ st = InitLocals
    /\ result = None
    /\ fences = <<>>
    /\ flag_seen = FALSE
    /\ last_correct = <<>>
    /\ correct_seen = 0
    /\ declared_after = 0
    /\ feedback_lines = <<>>
    /\ header_line = <<>>

FileIdle ==
    /\ pc = "idle"
    /\ consumed = <<>>
    /\ current_block = <<>>
    /\ question_num = 0
    /\ in_questions = FALSE
    /\ questions = <<>>
    /\ block_start = 0
    /\ emitted_from = <<>>

\* what is recorded of a line that takes the branch kind
Observed(line, kind) ==
    /\ fences' =
        CASE kind = "open" -> Append(fences, <<line>>)
          [] kind \in {"code", "close"} ->
                [fences EXCEPT ![Len(fences)] = Append(@, line)]
          [] OTHER -> fences
    /\ flag_seen' = (flag_seen \/ kind = "flag")
    /\ last_correct' = IF kind = "correct" THEN line ELSE last_correct
    /\ correct_seen' =
        IF kind = "correct" THEN correct_seen + 1 ELSE correct_seen
    /\ declared_after' =
        IF kind = "correct" THEN Len(st.options) ELSE declared_after
    /\ feedback_lines' =
        IF kind = "feedback" THEN Append(feedback_lines, line)
        ELSE feedback_lines
    /\ header_line' =
        IF kind = "header" /\ nread = 0 THEN line ELSE header_line

\* the loop of parse_question reads a line that takes the branch kind
Reads(line, kind) ==
    /\ qpc = "loop"
    /\ nread < MaxBlockLines
    /\ LineKind(st, line) = kind
    /\ nread' = nread + 1
    /\ Observed(line, kind)
    /\ UNCHANGED <<qpc, arg_num, result>>
    /\ UNCHANGED <<fvars, mvars, wvars>>

ReadOpenFence(line) == Reads(line, "open") /\ st' = OpenFence(st, line)

ReadCloseFence(line) == Reads(line, "close") /\ st' = CloseFence(st, line)

ReadCodeLine(line) == Reads(line, "code") /\ st' = CodeLine(st, line)

SkipLine(line) == Reads(line, "skip") /\ st' = st

ReadHeaderLine(line) == Reads(line, "header") /\ st' = HeaderLine(st, line)

ReadFlagLine(line) == Reads(line, "flag") /\ st' = FlagLine(st, line)

ReadCorrectLine(line) == Reads(line, "correct") /\ st' = CorrectLine(st, line)

ReadFeedbackLine(line) ==
    Reads(line, "feedback") /\ st' = FeedbackLine(st, line)

ReadOptionLine(line) == Reads(line, "option") /\ st' = OptionLine(st, line)

SkipReference(line) == Reads(line, "reference") /\ st' = st

ReadTextLine(line) == Reads(line, "text") /\ st' = TextLine(st, line)

\* the block has no more lines: the rest of parse_question
Return ==
    /\ qpc = "loop"
    /\ result' = IF nread = 0 THEN None ELSE Finish(st, arg_num)
    /\ qpc' = "done"
    /\ UNCHANGED <<arg_num, nread, st, fences, flag_seen, last_correct,
                   correct_seen,
                   declared_after, feedback_lines, header_line>>
    /\ UNCHANGED <<fvars, mvars, wvars>>

QuestionNext ==
    \/ \E line \in BlockLines : ReadOpenFence(line)
    \/ \E line \in BlockLines : ReadCloseFence(line)
    \/ \E line \in FencedLines : ReadCodeLine(line)
    \/ \E line \in BlockLines : SkipLine(line)
    \/ \E line \in BlockLines : ReadHeaderLine(line)
    \/ \E line \in BlockLines : ReadFlagLine(line)
    \/ \E line \in BlockLines : ReadCorrectLine(line)
    \/ \E line \in BlockLines : ReadFeedbackLine(line)
    \/ \E line \in BlockLines : ReadOptionLine(line)
    \/ \E line \in BlockLines : SkipReference(line)
    \/ \E line \in BlockLines : ReadTextLine(line)
    \/ Return

\* parse_question on every block of at most MaxBlockLines lines
InitPQ == QuestionInit /\ FileIdle /\ FormatIdle /\ WriterIdle

SpecPQ == InitPQ /\ [][QuestionNext]_vars

(***************************************************************************)
(* format_question_text.  A text is a sequence of characters; each markup  *)
(* string the function writes ("<br>", "&nbsp;", the tags, a placeholder)  *)
(* is one element of the sequence.                                         *)
(***************************************************************************)
BR == "<br>"
NBSP == "&nbsp;"
StrongOpen == "<strong>"
StrongClose == "</strong>"
CodeOpen == "<code>"
CodeClose == "</code>"
DivOpen ==
    "<div style=\"font-family: monospace; background-color: #f4f4f4; padding: 10px; line-height: 1.4; font-size: 0.7em;\">"
DivClose == "</div>"

\* f"__CODE_BLOCK_{i}__"
Placeholders ==
    <<"__CODE_BLOCK_0__", "__CODE_BLOCK_1__", "__CODE_BLOCK_2__",
      "__CODE_BLOCK_3__">>

Placeholder(i) == Placeholders[i + 1]

\* the elements \w matches: the word characters, and a placeholder text,
\* which is made of word characters
IsWord(e) ==
    e \in WordChars \/ \E i \in 1..Len(Placeholders) : e = Placeholders[i]

\* whether the three backticks of a delimiter stand at position i of t
FenceAt(t, i) ==
    /\ i + 2 <= Len(t)
    /\ t[i] = Backtick
    /\ t[i + 1] = Backtick
    /\ t[i + 2] = Backtick

\* the first position from i on where a delimiter stands, or 0
RECURSIVE FirstFenceFrom(_, _)
FirstFenceFrom(t, i) ==
    IF i + 2 > Len(t) THEN 0
    ELSE IF FenceAt(t, i) THEN i
    ELSE FirstFenceFrom(t, i + 1)

\* (?:\w+)? from position i: the position after the word characters
RECURSIVE SkipWord(_, _)
SkipWord(t, i) ==
    IF i <= Len(t) /\ IsWord(t[i]) THEN SkipWord(t, i + 1) ELSE i

\* \n? at position i
SkipNewline(t, i) == IF i <= Len(t) /\ t[i] = NL THEN i + 1 ELSE i

\* code_content.split("\n")
RECURSIVE Split(_, _)
Split(t, sep) ==
    IF \A i \in 1..Len(t) : t[i] # sep THEN <<t>>
    ELSE LET k == CHOOSE i \in 1..Len(t) :
                      t[i] = sep /\ \A j \in 1..(i - 1) : t[j] # sep
         IN  <<SubSeq(t, 1, k - 1)>> \o Split(SubSeq(t, k + 1, Len(t)), sep)

\* line.replace(" ", "&nbsp;")
EscapeSpaces(line) ==
    [i \in 1..Len(line) |-> IF line[i] = " " THEN NBSP ELSE line[i]]

\* replace_code_block: the container of one code region
FormatCode(code_content) ==
    LET lines == Split(code_content, NL)
        processed_lines == [i \in 1..Len(lines) |-> EscapeSpaces(lines[i])]
    IN  <<DivOpen>> \o Join(processed_lines, <<BR>>) \o <<DivClose>>

\* re.sub(r"```(?:\w+)?\n?(.*?)```", replace_code_block, result, DOTALL)
\* from position i on, with the code blocks found so far
RECURSIVE IsolateFrom(_, _, _)
IsolateFrom(t, i, blocks) ==
    LET open == FirstFenceFrom(t, i)
        from == IF open = 0 THEN 0
                ELSE SkipNewline(t, SkipWord(t, open + 3))
        close == IF open = 0 THEN 0 ELSE FirstFenceFrom(t, from)
    IN  IF close = 0
        THEN [result |-> SubSeq(t, i, Len(t)), code_blocks |-> blocks]
        ELSE LET rest ==
                     IsolateFrom(t, close + 3,
                         Append(blocks,
                                FormatCode(SubSeq(t, from, close - 1))))
             IN  [result |->
                      SubSeq(t, i, open - 1) \o <<Placeholder(Len(blocks))>>
                          \o rest.result,
                  code_blocks |-> rest.code_blocks]

\* the first position from i on that holds the character c, or Len(t) + 1
RECURSIVE RunEnd(_, _, _)
RunEnd(t, i, c) ==
    IF i > Len(t) \/ t[i] = c THEN i ELSE RunEnd(t, i + 1, c)

\* re.sub(r"\*\*([^*]+)\*\*", r"<strong>\1</strong>", result) from i on
RECURSIVE ConvertBoldFrom(_, _)
ConvertBoldFrom(t, i) ==
    IF i > Len(t) THEN <<>>
    ELSE LET e == RunEnd(t, i + 2, "*")
         IN  IF /\ t[i] = "*"
                /\ i + 1 <= Len(t) /\ t[i + 1] = "*"
                /\ e > i + 2
                /\ e + 1 <= Len(t) /\ t[e + 1] = "*"
             THEN <<StrongOpen>> \o SubSeq(t, i + 2, e - 1)
                      \o <<StrongClose>> \o ConvertBoldFrom(t, e + 2)
             ELSE <<t[i]>> \o ConvertBoldFrom(t, i + 1)

ConvertBold(t) == ConvertBoldFrom(t, 1)

\* re.sub(r"`([^`]+)`", r"<code>\1</code>", result) from position i on
RECURSIVE ConvertInlineFrom(_, _)
ConvertInlineFrom(t, i) ==
    IF i > Len(t) THEN <<>>
    ELSE LET e == RunEnd(t, i + 1, Backtick)
         IN  IF t[i] = Backtick /\ e > i + 1 /\ e <= Len(t)
             THEN <<CodeOpen>> \o SubSeq(t, i + 1, e - 1)
                      \o <<CodeClose>> \o ConvertInlineFrom(t, e + 1)
             ELSE <<t[i]>> \o ConvertInlineFrom(t, i + 1)

ConvertInline(t) == ConvertInlineFrom(t, 1)

\* a variant that leaves the newlines
ConvertNewlines_Kept(t) == t

\* result.replace("\n", "<br>")
ConvertNewlines(t) == [i \in 1..Len(t) |-> IF t[i] = NL THEN BR ELSE t[i]]

\* result.replace(old, new), old one element
RECURSIVE Replace(_, _, _)
Replace(t, old, new) ==
    IF t = <<>> THEN <<>>
    ELSE (IF Head(t) = old THEN new ELSE <<Head(t)>>)
             \o Replace(Tail(t), old, new)

\* the loop that restores the code blocks, from block i on
RECURSIVE RestoreFrom(_, _, _)
RestoreFrom(t, blocks, i) ==
    IF i >= Len(blocks) THEN t
    ELSE RestoreFrom(Replace(t, Placeholder(i), blocks[i + 1]), blocks, i + 1)

\* format_question_text(text)
FormatQuestionText(t) ==
    LET isolated == IsolateFrom(t, 1, <<>>)
    IN  RestoreFrom(
            ConvertNewlines(ConvertInline(ConvertBold(isolated.result))),
            isolated.code_blocks, 0)

\* the pieces the texts are made of
TFence == P_Fence
TFenceTagged == LFenceTagged \o <<NL>>
TTick == <<Backtick>>
TStars == <<"*", "*">>
TWord == <<"x">>
TCode == <<"x", " ", "y", NL, "z">>
TNewline == <<NL>>
TPlaceholder == <<Placeholder(0)>>

TextPieces ==
    {TFence, TFenceTagged, TTick, TStars, TWord, TCode, TNewline,
     TPlaceholder}

\* the texts of n pieces
RECURSIVE TextsOf(_)
TextsOf(n) ==
    IF n = 0 THEN {<<>>}
    ELSE {t \o p : t \in TextsOf(n - 1), p \in TextPieces}

\* the texts format_question_text is given
Texts == UNION {TextsOf(n) : n \in 0..MaxTextPieces}

\* format_question_text is called with a text
FormatInit ==
    /\ mpc = "isolate"
    /\ text \in Texts
    /\ fmt_result = text
    /\ code_blocks = <<>>

\* the code regions go behind placeholders
IsolateCodeBlocks ==
    /\ mpc = "isolate"
    /\ fmt_result' = IsolateFrom(fmt_result, 1, <<>>).result
    /\ code_blocks' = IsolateFrom(fmt_result, 1, <<>>).code_blocks
    /\ mpc' = "bold"
    /\ UNCHANGED <<text, fvars, qvars, wvars>>

BoldPass ==
    /\ mpc = "bold"
    /\ fmt_result' = ConvertBold(fmt_result)
    /\ mpc' = "inline"
    /\ UNCHANGED <<text, code_blocks, fvars, qvars, wvars>>

InlineCodePass ==
    /\ mpc = "inline"
    /\ fmt_result' = ConvertInline(fmt_result)
    /\ mpc' = "newlines"
    /\ UNCHANGED <<text, code_blocks, fvars, qvars, wvars>>

NewlinePass ==
    /\ mpc = "newlines"
    /\ fmt_result' = ConvertNewlines(fmt_result)
    /\ mpc' = "restore"
    /\ UNCHANGED <<text, code_blocks, fvars, qvars, wvars>>

RestoreCodeBlocks ==
    /\ mpc = "restore"
    /\ fmt_result' = RestoreFrom(fmt_result, code_blocks, 0)
    /\ mpc' = "done"
    /\ UNCHANGED <<text, code_blocks, fvars, qvars, wvars>>

FormatNext ==
    \/ IsolateCodeBlocks
    \/ BoldPass
    \/ InlineCodePass
    \/ NewlinePass
    \/ RestoreCodeBlocks

InitFmt == FormatInit /\ FileIdle /\ QuestionIdle /\ WriterIdle

\* format_question_text on every text of at most MaxTextPieces pieces
SpecFmt == InitFmt /\ [][FormatNext]_vars

(***************************************************************************)
(* write_d2l_csv.  A row is the list csv.writer is given: its first field  *)
(* is a string, each other field a text; the empty row is <<>>.            *)
(***************************************************************************)
\* the two header comment rows, the legend row and the empty row
CommentRows ==
    <<<<"// Converted from quiz markdown using gen_quiz_csv.py">>,
      <<"// Originally developed for SIT xSITe LMS - may require modifications for other D2L instances">>,
      <<"// Question types: MC=Multiple Choice, MS=Multi-Select, SA=Short Answer">>,
      <<>>>>

\* the class [a-zA-Z]
AsciiLetters ==
    WordChars \ {"0", "1", "2", "3", "4", "5", "6", "7", "8", "9", "_"}

\* the markup strings that match <[a-zA-Z][^>]*> and those that end one
OpeningTags == {BR, StrongOpen, CodeOpen, DivOpen}
ClosingTags == {StrongClose, CodeClose, DivClose}

\* re.search(r"<[a-zA-Z][^>]*>", t)
HasHtml(t) ==
    \E i \in 1..Len(t) :
        \/ t[i] \in OpeningTags
        \/ /\ t[i] = "<"
           /\ i < Len(t)
           /\ t[i + 1] \in AsciiLetters
           /\ \E j \in (i + 2)..Len(t) :
                  t[j] \in ({">"} \cup OpeningTags \cup ClosingTags)

\* "HTML" if re.search(...) else ""
HtmlIndicator(t) == IF HasHtml(t) THEN <<"HTML">> ELSE <<>>

Digits == <<"0", "1", "2", "3", "4", "5", "6", "7", "8", "9">>

\* str(n)
RECURSIVE DigitsOf(_)
DigitsOf(n) ==
    IF n < 10 THEN <<Digits[n + 1]>>
    ELSE Append(DigitsOf(n \div 10), Digits[(n % 10) + 1])

\* f"{course_code}-Q{q['num']:02d}"
QuestionId(course_code, num) ==
    <<course_code, "-Q">>
        \o (IF num < 10 THEN <<"0">> ELSE <<>>) \o DigitsOf(num)

\* the six rows every written question starts with
QuestionHeaderRows(q, course_code, titles) ==
    LET q_text == FormatQuestionText(q.text)
        title == IF titles THEN q.title ELSE <<>>
    IN  <<<<"NewQuestion", <<q.type>>, <<>>, <<>>, <<>>>>,
          <<"ID", QuestionId(course_code, q.num), <<>>, <<>>, <<>>>>,
          <<"Title", title, <<>>, <<>>, <<>>>>,
          <<"QuestionText", q_text, HtmlIndicator(q_text), <<>>, <<>>>>,
          <<"Points", <<"1">>, <<>>, <<>>, <<>>>>,
          <<"Difficulty", <<"2">>, <<>>, <<>>, <<>>>>>>

\* one Option row for each option, scored right or wrong
OptionRows(options, right, wrong) ==
    [j \in 1..Len(options) |->
        <<"Option",
          IF options[j].correct THEN <<right>> ELSE <<wrong>>,
          options[j].text,
          HtmlIndicator(options[j].text),
          <<>>>>]

\* the rows of an MC question
SingleSelectRows(q) == OptionRows(q.options, "100", "0")

\* a variant that writes the scoring row after the options
MultiSelectRows_ScoringLast(q) ==
    OptionRows(q.options, "1", "0")
        \o <<<<"Scoring", <<"RightAnswers">>, <<>>, <<>>, <<>>>>>>

\* the rows of an MS question
MultiSelectRows(q) ==
    <<<<"Scoring", <<"RightAnswers">>, <<>>, <<>>, <<>>>>>>
        \o OptionRows(q.options, "1", "0")

\* the rows of an SA question
FreeResponseRows(q) ==
    <<<<"InputBox", <<"1">>, <<"50">>, <<>>, <<>>>>,
      <<"Answer", <<"100">>,
        IF q.short_answer # <<>> THEN q.short_answer
        ELSE <<"See marking guide">>,
        <<>>, <<>>>>>>

\* a variant that writes the feedback row for every type
FeedbackRows_EveryType(q) ==
    IF q.correct_explanation # <<>>
    THEN <<<<"Feedback", q.correct_explanation, <<>>, <<>>, <<>>>>>>
    ELSE <<>>

\* the feedback row, if there is an explanation and the type is not SA
FeedbackRows(q) ==
    IF q.correct_explanation # <<>> /\ q.type # "SA"
    THEN <<<<"Feedback", q.correct_explanation, <<>>, <<>>, <<>>>>>>
    ELSE <<>>

\* the questions write_d2l_csv is given: what parse_question returns for
\* four blocks, and a question without text
LBodyBold == TStars \o <<"Q">> \o TStars
LOptABold == <<"A", ".", " ">> \o TStars \o <<"x">> \o TStars
QSingle ==
    ParseQuestion(<<LHeader, LBody, LOptA, LOptB, LCorrectB, LFeedback>>, 1)
QMulti ==
    ParseQuestion(<<LHeader, LBodyBold, LOptABold, LOptB, LCorrectAB>>, 2)
QFree == ParseQuestion(<<LHeader, LFlag, LBody, LCorrectText>>, 3)
QFreeNoAnswer == ParseQuestion(<<LBody, LFeedback>>, 4)
QNoText == [QSingle EXCEPT !.num = 5, !.text = <<>>]
QMultiExplained ==
    ParseQuestion(<<LHeader, LBody, LOptA, LOptB, LCorrectAB, LFeedback>>, 6)

QuestionLibrary ==
    {QSingle, QMulti, QFree, QFreeNoAnswer, QNoText, QMultiExplained}

\* the lists of n questions
RECURSIVE ListsOf(_)
ListsOf(n) ==
    IF n = 0 THEN {<<>>}
    ELSE {Append(l, q) : l \in ListsOf(n - 1), q \in QuestionLibrary}

QuestionLists == UNION {ListsOf(n) : n \in 0..MaxQuestions}

\* the argument course_code
CourseCode == "COURSE"

\* write_d2l_csv is called with a list of questions
WriterInit ==
    /\ wpc = "open"
    /\ csv_questions \in QuestionLists
    /\ include_titles \in BOOLEAN
    /\ qi = 1
    /\ rows = <<>>

\* the rows written before the loop
WriteComments ==
    /\ wpc = "open"
    /\ rows' = CommentRows
    /\ wpc' = "loop"
    /\ UNCHANGED <<csv_questions, include_titles, qi, fvars, qvars, mvars>>

\* the loop takes the next question, of the given type and with text
Takes(q_type) ==
    /\ wpc = "loop"
    /\ qi <= Len(csv_questions)
    /\ csv_questions[qi].text # <<>>
    /\ csv_questions[qi].type = q_type
    /\ qi' = qi + 1
    /\ UNCHANGED <<wpc, csv_questions, include_titles, fvars, qvars, mvars>>

\* the rows after the kind-specific rows of q
ClosingRows(q) == FeedbackRows(q) \o <<<<>>>>

\* if not q["text"]: continue
SkipQuestion ==
    /\ wpc = "loop"
    /\ qi <= Len(csv_questions)
    /\ csv_questions[qi].text = <<>>
    /\ qi' = qi + 1
    /\ UNCHANGED <<wpc, csv_questions, include_titles, rows, fvars, qvars,
                   mvars>>

WriteSingleSelect ==
    /\ Takes("MC")
    /\ rows' =
        rows \o QuestionHeaderRows(csv_questions[qi], CourseCode,
                                   include_titles)
             \o SingleSelectRows(csv_questions[qi])
             \o ClosingRows(csv_questions[qi])

WriteMultiSelect ==
    /\ Takes("MS")
    /\ rows' =
        rows \o QuestionHeaderRows(csv_questions[qi], CourseCode,
                                   include_titles)
             \o MultiSelectRows(csv_questions[qi])
             \o ClosingRows(csv_questions[qi])

WriteFreeResponse ==
    /\ Takes("SA")
    /\ rows' =
        rows \o QuestionHeaderRows(csv_questions[qi], CourseCode,
                                   include_titles)
             \o FreeResponseRows(csv_questions[qi])
             \o ClosingRows(csv_questions[qi])

\* the list has no more questions
CloseFile ==
    /\ wpc = "loop"
    /\ qi > Len(csv_questions)
    /\ wpc' = "done"
    /\ UNCHANGED <<csv_questions, include_titles, qi, rows, fvars, qvars,
                   mvars>>

WriterNext ==
    \/ WriteComments
    \/ SkipQuestion
    \/ WriteSingleSelect
    \/ WriteMultiSelect
    \/ WriteFreeResponse
    \/ CloseFile

InitCsv == WriterInit /\ FileIdle /\ QuestionIdle /\ FormatIdle

\* write_d2l_csv on every list of at most MaxQuestions questions
SpecCsv == InitCsv /\ [][WriterNext]_vars

(***************************************************************************)
(* What the claims speak of: the headers and the line groups of a          *)
(* document.                                                               *)
(***************************************************************************)
\* how many question headers a document has before its first trailer line
RECURSIVE HeadersBeforeTrailer(_)
HeadersBeforeTrailer(doc) ==
    IF doc = <<>> THEN 0
    ELSE IF IsQuestionHeader(Head(doc))
         THEN 1 + HeadersBeforeTrailer(Tail(doc))
    ELSE IF IsTrailer(Head(doc)) THEN 0
    ELSE HeadersBeforeTrailer(Tail(doc))

\* how many question headers the first k lines of a document hold
HeaderIndex(doc, k) ==
    Cardinality({i \in 1..k : IsQuestionHeader(doc[i])})

\* the line groups of a document: each from a question header up to the
\* next one, the trailer or the end
RECURSIVE SplitFrom(_, _)
SplitFrom(doc, groups) ==
    IF doc = <<>> THEN groups
    ELSE IF IsQuestionHeader(Head(doc))
         THEN SplitFrom(Tail(doc), Append(groups, <<Head(doc)>>))
    ELSE IF IsTrailer(Head(doc)) THEN groups
    ELSE IF groups = <<>> THEN SplitFrom(Tail(doc), groups)
    ELSE SplitFrom(Tail(doc),
                   [groups EXCEPT ![Len(groups)] = Append(@, Head(doc))])

Groups(doc) == SplitFrom(doc, <<>>)

\* the body parse_question accumulates for a line group is empty
BodyEmpty(group) ==
    QuestionText(ParseLines(InitLocals, group).question_text_lines) = <<>>

\* the loop of parse_quiz_file has read a trailer line
TrailerRead == consumed # <<>> /\ IsTrailer(consumed[Len(consumed)])

(***************************************************************************)
(* The claims about parse_quiz_file, under Spec.                           *)
(***************************************************************************)
\* C1: parse_quiz_file returns at most as many questions as the document
\* has question headers before its first trailer line; it returns fewer
\* only when the body of some line group is empty; and it returns none for
\* a document without a question header.
C1_CountAtMostHeaders ==
    pc = "done" =>
        /\ Len(questions) <= HeadersBeforeTrailer(consumed)
        /\ (Len(questions) < HeadersBeforeTrailer(consumed) =>
                \E g \in 1..Len(Groups(consumed)) :
                    BodyEmpty(Groups(consumed)[g]))
        /\ (HeadersBeforeTrailer(consumed) = 0 => questions = <<>>)

\* a document with a discarded block and a question has been parsed
C1_Witness ==
    /\ pc = "done"
    /\ 0 < Len(questions)
    /\ Len(questions) < HeadersBeforeTrailer(consumed)

\* three question blocks with a body each, then the trailer, all parsed
ThreeBlocksThenTrailer ==
    /\ pc = "done"
    /\ TrailerRead
    /\ Len(Groups(consumed)) = 3
    /\ \A g \in 1..3 : ~BodyEmpty(Groups(consumed)[g])

\* C2: once the loop has read a trailer line it reads no further line and
\* the questions stay as they are then; three question blocks followed by
\* the trailer give exactly three questions.
C2_StopsAtTrailer ==
    /\ [][TrailerRead => (consumed' = consumed /\ questions' = questions)]_vars
    /\ [](ThreeBlocksThenTrailer => Len(questions) = 3)

C2_Witness == ThreeBlocksThenTrailer

\* C3: the questions are in document order: each has the number of its
\* header among the question headers, the numbers increase strictly, and
\* no block is in the list twice.
C3_NumbersFollowHeaders ==
    /\ Len(emitted_from) = Len(questions)
    /\ \A i \in 1..Len(questions) :
        /\ emitted_from[i] \in 1..Len(consumed)
        /\ IsQuestionHeader(consumed[emitted_from[i]])
        /\ questions[i].num = HeaderIndex(consumed, emitted_from[i])
    /\ \A i, j \in 1..Len(questions) :
        i < j => /\ questions[i].num < questions[j].num
                 /\ emitted_from[i] < emitted_from[j]

\* a document that ends with the trailer gave questions 1 and 3: block 2
\* left a gap and the last block, parsed twice, is there once
C3_Witness ==
    /\ pc = "done"
    /\ TrailerRead
    /\ Len(questions) = 2
    /\ questions[1].num = 1
    /\ questions[2].num = 3

(***************************************************************************)
(* The claims about parse_question, under SpecPQ.                          *)
(***************************************************************************)
\* parse_question has returned a question
Returned == qpc = "done" /\ result # None

\* the letters the last correct-answer line of the block declares
DeclaredLetters ==
    IF last_correct = <<>> THEN {}
    ELSE LET letters ==
                 FindLetters(Strip(CorrectMatch(Strip(last_correct)).group))
         IN  {letters[j] : j \in 1..Len(letters)}

\* C4 as stated: the kind is MS if and only if more than one option is
\* marked correct.
C4_Original ==
    Returned => (result.type = "MS" <=> CorrectCount(result.options) > 1)

\* C4, amended: the kind is MS if and only if more than one option is
\* marked correct and the short-answer flag was not set.
C4_MultiSelect ==
    Returned =>
        (result.type = "MS" <=>
            (CorrectCount(result.options) > 1 /\ ~flag_seen))

\* a multi-select question has been returned
C4_Witness ==
    /\ Returned
    /\ result.type = "MS"
    /\ CorrectCount(result.options) = 2
    /\ Len(result.options) = 2
    /\ ~flag_seen

\* C5 as stated: the kind is MC if and only if exactly one option is
\* marked correct and the short-answer flag was not set.
C5_Original ==
    Returned =>
        (result.type = "MC" <=>
            (CorrectCount(result.options) = 1 /\ ~flag_seen))

\* C5, amended: the kind is MC if and only if the short-answer flag was not
\* set, the block has an option and at most one option is marked correct.
C5_SingleSelect ==
    Returned =>
        (result.type = "MC" <=>
            /\ ~flag_seen
            /\ result.options # <<>>
            /\ CorrectCount(result.options) <= 1)

\* a single-select question with one correct option of two
C5_Witness ==
    /\ Returned
    /\ result.type = "MC"
    /\ CorrectCount(result.options) = 1
    /\ Len(result.options) = 2

\* C6: the kind is SA if and only if the block had a short-answer flag
\* line or gave no option.
C6_FreeResponse ==
    Returned =>
        (result.type = "SA" <=> (flag_seen \/ result.options = <<>>))

\* a flagged block with options was returned as SA
C6_Witness ==
    /\ Returned
    /\ result.type = "SA"
    /\ flag_seen
    /\ result.options # <<>>

\* C7: an option is marked correct if and only if its letter is among the
\* letters of the block's correct-answer declaration, wherever that line
\* stands.
C7_CorrectIffDeclared ==
    Returned =>
        \A i \in 1..Len(result.options) :
            result.options[i].correct <=>
                result.options[i].letter \in DeclaredLetters

\* the declaration came before both option lines; the second is correct
C7_Witness ==
    /\ Returned
    /\ last_correct # <<>>
    /\ declared_after = 0
    /\ Len(result.options) = 2
    /\ ~result.options[1].correct
    /\ result.options[2].correct

\* C8: every option letter is one of A to F and no two options of a
\* question have the same letter.
C8_UniqueLetters ==
    Returned =>
        /\ \A i \in 1..Len(result.options) :
               result.options[i].letter \in OptionLetters
        /\ \A i, j \in 1..Len(result.options) :
               i # j => result.options[i].letter # result.options[j].letter

\* C9: parse_question returns None for an empty line group and for a block
\* whose body is empty after trimming; a returned question has a body.
C9_EmptyBodyDiscarded ==
    qpc = "done" =>
        /\ nread = 0 => result = None
        /\ QuestionText(st.question_text_lines) = <<>> => result = None
        /\ result # None =>
               /\ result.text # <<>>
               /\ result.text = QuestionText(st.question_text_lines)

\* a block of a header, options and an answer line was discarded
C9_Witness ==
    /\ qpc = "done"
    /\ result = None
    /\ st.title # <<>>
    /\ st.options # <<>>
    /\ st.correct_letters # <<>>

\* C10: every fence the loop read, its delimiters and its lines joined by
\* newlines, is a fragment of the returned body.
C10_FencesVerbatim ==
    Returned =>
        \A f \in 1..Len(fences) :
            Contains(result.text, Join(fences[f], <<NL>>))

\* a blockquote line that begins with "Correct Answer:" or "Correct
\* Answers:", whatever follows the colon
IsCorrectDeclaration(line) ==
    LET stripped == Strip(line)
    IN  /\ stripped # <<>>
        /\ Head(stripped) = ">"
        /\ \/ StartsWith(LStrip(Tail(stripped)), P_Correct \o <<":">>)
           \/ StartsWith(LStrip(Tail(stripped)), P_Correct \o <<"s", ":">>)

\* C11: no correct-answer declaration line, whatever follows its colon,
\* nothing included, is a line of the body of the returned question.
C11_DeclarationNotInBody ==
    Returned =>
        \A i \in 1..Len(st.question_text_lines) :
            ~IsCorrectDeclaration(st.question_text_lines[i])

\* the text a feedback line declares
FeedbackText(line) == Strip(FeedbackMatch(Strip(line)).group)

\* C12: when the block has feedback declaration lines outside fences, the
\* feedback of the returned question is the text of the last of them, and
\* no feedback declaration line is a line of the body.
C12_LastFeedbackWins ==
    Returned =>
        /\ feedback_lines # <<>> =>
               result.correct_explanation =
                   FeedbackText(feedback_lines[Len(feedback_lines)])
        /\ \A i \in 1..Len(st.question_text_lines) :
               ~FeedbackMatch(Strip(st.question_text_lines[i])).matched

\* two feedback lines of different text were read; the second one's text
\* is the feedback
C12_Witness ==
    /\ Returned
    /\ Len(feedback_lines) = 2
    /\ FeedbackText(feedback_lines[1]) # FeedbackText(feedback_lines[2])
    /\ result.correct_explanation = FeedbackText(feedback_lines[2])

\* the answer text of "> Correct Answer: 42"
AnswerText42 == <<"4", "2">>

\* C13: the feedback of a returned SA question is the text of the block's
\* last feedback line when it has one, else the letterless answer text when
\* one was captured, else empty; the short-answer flag, "> Correct Answer:
\* 42" and no feedback line give the answer "42" and the feedback "42".
C13_FeedbackFallback ==
    (Returned /\ result.type = "SA") =>
        /\ result.correct_explanation =
               IF feedback_lines # <<>>
               THEN FeedbackText(feedback_lines[Len(feedback_lines)])
               ELSE IF st.short_answer_text # <<>>
                    THEN st.short_answer_text
                    ELSE <<>>
        /\ (flag_seen /\ last_correct = LCorrectText
               /\ feedback_lines = <<>>) =>
               /\ result.short_answer = AnswerText42
               /\ result.correct_explanation = AnswerText42

\* the flag, "> Correct Answer: 42", a body and no feedback line: the
\* feedback is the answer
C13_Witness ==
    /\ Returned
    /\ result.type = "SA"
    /\ flag_seen
    /\ last_correct = LCorrectText
    /\ feedback_lines = <<>>
    /\ result.correct_explanation = AnswerText42

\* the text of a section-header line: the line without its "## ", trimmed
HeaderText(line) == Strip(Drop(Strip(line), Len(P_HeaderStart)))

\* C14: when the first line of the block is its section-header line, the
\* title of the returned question is the text of that line, whole, whatever
\* other lines the block has.
C14_TitleIsHeaderText ==
    (Returned /\ header_line # <<>> /\ IsQuestionHeader(header_line)) =>
        result.title = HeaderText(header_line)

\* C15: parse_question returns an empty title for a block whose header has
\* the form "## Topic: Subtopic".
C15_TitleBlank ==
    (Returned /\ header_line = LHeader) => result.title = <<>>

(***************************************************************************)
(* The claims about format_question_text, under SpecFmt.                   *)
(***************************************************************************)
\* the closed code regions of a text from position i on, each with the
\* positions of its opening delimiter, of its interior and of its closing
\* delimiter
RECURSIVE RegionsFrom(_, _)
RegionsFrom(t, i) ==
    LET open == FirstFenceFrom(t, i)
        from == IF open = 0 THEN 0
                ELSE SkipNewline(t, SkipWord(t, open + 3))
        close == IF open = 0 THEN 0 ELSE FirstFenceFrom(t, from)
    IN  IF close = 0 THEN <<>>
        ELSE <<[open |-> open, from |-> from, close |-> close]>>
                 \o RegionsFrom(t, close + 3)

Regions(t) == RegionsFrom(t, 1)

\* the interior of a region: what stands between the opening delimiter,
\* its language tag and newline, and the closing delimiter
Interior(t, r) == SubSeq(t, r.from, r.close - 1)

\* what stands for a styled container in a collapsed text
CodeMark == "[code]"

\* the output with each outermost styled container collapsed to CodeMark
RECURSIVE CollapseFrom(_, _, _)
CollapseFrom(t, i, depth) ==
    IF i > Len(t) THEN <<>>
    ELSE IF t[i] = DivOpen
         THEN (IF depth = 0 THEN <<CodeMark>> ELSE <<>>)
                  \o CollapseFrom(t, i + 1, depth + 1)
    ELSE IF t[i] = DivClose
         THEN CollapseFrom(t, i + 1, IF depth > 0 THEN depth - 1 ELSE 0)
    ELSE (IF depth = 0 THEN <<t[i]>> ELSE <<>>)
             \o CollapseFrom(t, i + 1, depth)

Collapse(t) == CollapseFrom(t, 1, 0)

\* the contents of the outermost styled containers of the output, in order
RECURSIVE ContainersFrom(_, _, _, _)
ContainersFrom(t, i, depth, current) ==
    IF i > Len(t) THEN <<>>
    ELSE IF t[i] = DivOpen
         THEN ContainersFrom(t, i + 1, depth + 1,
                  IF depth = 0 THEN <<>> ELSE Append(current, t[i]))
    ELSE IF t[i] = DivClose
         THEN IF depth = 1
              THEN <<current>> \o ContainersFrom(t, i + 1, 0, <<>>)
              ELSE ContainersFrom(t, i + 1,
                       IF depth > 0 THEN depth - 1 ELSE 0,
                       Append(current, t[i]))
    ELSE ContainersFrom(t, i + 1, depth,
             IF depth = 0 THEN <<>> ELSE Append(current, t[i]))

Containers(t) == ContainersFrom(t, 1, 0, <<>>)

\* the asterisks and backticks of a text, in order
Markers(t) == SelectSeq(t, LAMBDA e : e \in {"*", Backtick})

\* a text has a raw "**" or a raw backtick
HasRawMarker(t) ==
    \/ \E i \in 1..Len(t) : t[i] = Backtick
    \/ \E i \in 1..(Len(t) - 1) : t[i] = "*" /\ t[i + 1] = "*"

\* format_question_text has returned
Formatted == mpc = "done"

\* C16: for a text with a closed code region, the output outside its styled
\* containers has no raw "**" and no raw backtick, and each container holds
\* the asterisks and backticks of its region's interior, unchanged.
C16_MarkersRewrittenOutsideOnly ==
    (Formatted /\ Regions(text) # <<>>) =>
        /\ ~HasRawMarker(Collapse(fmt_result))
        /\ \A k \in 1..Len(Regions(text)) :
               /\ k <= Len(Containers(fmt_result))
               /\ Markers(Containers(fmt_result)[k]) =
                      Markers(Interior(text, Regions(text)[k]))

\* C17: the output has no newline character.
C17_NoNewline ==
    Formatted => \A i \in 1..Len(fmt_result) : fmt_result[i] # NL

\* a text with a newline outside a code region and one inside has been
\* formatted: there is a line break outside the containers and one inside
C17_Witness ==
    /\ Formatted
    /\ \E i \in 1..Len(text) : text[i] = NL
    /\ \E i \in 1..Len(Collapse(fmt_result)) : Collapse(fmt_result)[i] = BR
    /\ \E k \in 1..Len(code_blocks) :
           \E i \in 1..Len(code_blocks[k]) : code_blocks[k][i] = BR

\* the position of the opening delimiter that no delimiter closes, or 0
UnterminatedAt(t) ==
    FirstFenceFrom(t,
        IF Regions(t) = <<>> THEN 1
        ELSE Regions(t)[Len(Regions(t))].close + 3)

\* an interior as a code region shows it: spaces escaped, newlines as
\* line breaks, in the styled container
AsCode(interior) ==
    <<DivOpen>>
        \o [i \in 1..Len(interior) |->
               IF interior[i] = " " THEN NBSP
               ELSE IF interior[i] = NL THEN BR
               ELSE interior[i]]
        \o <<DivClose>>

\* C18: when the text has an opening delimiter that nothing closes, the
\* output is the translation of the text before it, then all the text after
\* it as one code region.
C18_UnterminatedIsCode ==
    (Formatted /\ UnterminatedAt(text) # 0) =>
        fmt_result =
            FormatQuestionText(SubSeq(text, 1, UnterminatedAt(text) - 1))
                \o AsCode(SubSeq(text,
                              SkipNewline(text,
                                  SkipWord(text, UnterminatedAt(text) + 3)),
                              Len(text)))

\* the words of a collapsed text and its containers, in order
Skeleton(t) == SelectSeq(t, LAMBDA e : IsWord(e) \/ e = CodeMark)

\* a text with each of its closed code regions collapsed to CodeMark
RECURSIVE CollapseRegionsFrom(_, _)
CollapseRegionsFrom(t, i) ==
    IF RegionsFrom(t, i) = <<>> THEN SubSeq(t, i, Len(t))
    ELSE SubSeq(t, i, RegionsFrom(t, i)[1].open - 1) \o <<CodeMark>>
             \o CollapseRegionsFrom(t, RegionsFrom(t, i)[1].close + 3)

\* C19: the output has one styled container for each closed code region of
\* the text, in the order of the regions, each holding its region's
\* interior with spaces escaped and lines joined by line breaks, and each
\* where its region stood among the words of the text.
C19_RegionsInPlace ==
    Formatted =>
        /\ Len(Containers(fmt_result)) = Len(Regions(text))
        /\ \A k \in 1..Len(Regions(text)) :
               <<DivOpen>> \o Containers(fmt_result)[k] \o <<DivClose>> =
                   AsCode(Interior(text, Regions(text)[k]))
        /\ Skeleton(Collapse(fmt_result)) =
               Skeleton(CollapseRegionsFrom(text, 1))

(***************************************************************************)
(* The claims about write_d2l_csv, under SpecCsv.                          *)
(***************************************************************************)
\* the questions write_d2l_csv writes: those with a text, in list order
Written(questions_in) == SelectSeq(questions_in, LAMBDA q : q.text # <<>>)

\* the rows split at the empty rows
RowGroups(rs) == Split(rs, <<>>)

\* the first fields of the rows of a group
RowTags(group) == [i \in 1..Len(group) |-> group[i][1]]

\* the first fields of the kind-specific rows of a question
KindTags(q) ==
    CASE q.type = "MC" -> [j \in 1..Len(q.options) |-> "Option"]
      [] q.type = "MS" ->
            <<"Scoring">> \o [j \in 1..Len(q.options) |-> "Option"]
      [] q.type = "SA" -> <<"InputBox", "Answer">>

\* the first fields of the rows of a question, without the feedback row
OrderedTags(q) ==
    <<"NewQuestion", "ID", "Title", "QuestionText", "Points", "Difficulty">>
        \o KindTags(q)

\* where the option rows of a question start in its group
OptionsOffset(q) == IF q.type = "MS" THEN 7 ELSE 6

\* a group of rows is the rows of question q, in the fixed order
IsGroupOf(group, q) ==
    /\ RowTags(group) \in {OrderedTags(q), Append(OrderedTags(q), "Feedback")}
    /\ group[1][2] = <<q.type>>
    /\ group[2][2] = QuestionId(CourseCode, q.num)
    /\ q.type \in {"MC", "MS"} =>
           \A j \in 1..Len(q.options) :
               group[OptionsOffset(q) + j][3] = q.options[j].text

\* C20: after the comment rows, the rows are one group for each written
\* question, in list order, each closed by one empty row; the rows of a
\* group are the type record, the identifier, the title, the body, the
\* points, the difficulty, the kind-specific rows (the options in option
\* order, after the scoring row for MS; the input box and the answer for
\* SA) and then at most one feedback row.
C20_RowOrder ==
    wpc = "done" =>
        /\ Len(RowGroups(rows)) = Len(Written(csv_questions)) + 2
        /\ RowGroups(rows)[Len(RowGroups(rows))] = <<>>
        /\ \A k \in 1..Len(Written(csv_questions)) :
               IsGroupOf(RowGroups(rows)[k + 1], Written(csv_questions)[k])

\* a list of an MC, an MS and an SA question has been written, the first
\* with a feedback row and the second without
C20_Witness ==
    /\ wpc = "done"
    /\ Len(csv_questions) = 3
    /\ csv_questions[1].type = "MC"
    /\ csv_questions[2].type = "MS"
    /\ csv_questions[3].type = "SA"
    /\ Len(RowGroups(rows)) = 5
    /\ "Feedback" = RowGroups(rows)[2][Len(RowGroups(rows)[2])][1]
    /\ "Feedback" # RowGroups(rows)[3][Len(RowGroups(rows)[3])][1]

\* the first fields of the rows of a group hold a feedback row
HasFeedbackRow(group) == \E i \in 1..Len(group) : group[i][1] = "Feedback"

\* C21: write_d2l_csv writes a feedback row for a question exactly when its
\* type is MC or MS and its feedback is not empty; for an SA question it
\* writes none, also when the feedback is not empty.
C21_FeedbackRowIff ==
    wpc = "done" =>
        \A k \in 1..Len(Written(csv_questions)) :
            LET q == Written(csv_questions)[k]
                group == RowGroups(rows)[k + 1]
            IN  /\ HasFeedbackRow(group) <=>
                       (q.type \in {"MC", "MS"} /\ q.correct_explanation # <<>>)
                /\ HasFeedbackRow(group) =>
                       group[Len(group)] =
                           <<"Feedback", q.correct_explanation, <<>>, <<>>, <<>>>>

\* an SA question with feedback has been written without a feedback row,
\* an MS question with feedback with one, and an MS question without
\* feedback without one
C21_Witness ==
    /\ wpc = "done"
    /\ Len(csv_questions) = 3
    /\ csv_questions[1].type = "SA"
    /\ csv_questions[1].text # <<>>
    /\ csv_questions[1].correct_explanation # <<>>
    /\ ~HasFeedbackRow(RowGroups(rows)[2])
    /\ csv_questions[2].type = "MS"
    /\ csv_questions[2].correct_explanation # <<>>
    /\ HasFeedbackRow(RowGroups(rows)[3])
    /\ csv_questions[3].type = "MS"
    /\ csv_questions[3].correct_explanation = <<>>
    /\ ~HasFeedbackRow(RowGroups(rows)[4])

\* C22: every text field is written as format_question_text translates it:
\* the text of each Option row is the translation of the parsed option
\* text, as the text of the QuestionText row is the translation of the
\* parsed body.
C22_OptionsTranslated ==
    wpc = "done" =>
        \A k \in 1..Len(Written(csv_questions)) :
            LET q == Written(csv_questions)[k]
                group == RowGroups(rows)[k + 1]
            IN  /\ group[4][2] = FormatQuestionText(q.text)
                /\ q.type \in {"MC", "MS"} =>
                       \A j \in 1..Len(q.options) :
                           group[OptionsOffset(q) + j][3] =
                               FormatQuestionText(q.options[j].text)

\* what parse_question returns for each line group of a document with the
\* index of the group
ParsedGroups(doc) ==
    LET groups == Groups(doc)
    IN  [g \in 1..Len(groups) |-> ParseQuestion(groups[g], g)]

\* C23: parse_quiz_file appends nothing for a block parse_question returns
\* None for and still appends every other block: the questions returned
\* are, in order, what parse_question returns other than None for the line
\* groups with their indexes; and but for its number a question is what
\* parse_question returns for its own line group under any other number.
C23_NoneSkippedOthersKept ==
    pc = "done" =>
        LET groups == Groups(consumed)
        IN  /\ questions =
                   SelectSeq(ParsedGroups(consumed), LAMBDA q : q # None)
            /\ \A i \in 1..Len(questions) :
                   [questions[i] EXCEPT !.num = 0] =
                       [ParseQuestion(groups[questions[i].num],
                                      MaxDocLines + 1) EXCEPT !.num = 0]

\* of three blocks the second had no body: the first and the third are
\* returned
C23_Witness ==
    /\ pc = "done"
    /\ Len(Groups(consumed)) = 3
    /\ ParsedGroups(consumed)[1] # None
    /\ ParsedGroups(consumed)[2] = None
    /\ ParsedGroups(consumed)[3] # None
    /\ Len(questions) = 2
    /\ questions[2].num = 3

\* a line before the first question header that is not the trailer
IsPreambleLine(line) == ~IsQuestionHeader(line) /\ ~IsTrailer(line)

\* a document without the lines before its first question header or
\* trailer line
RECURSIVE DropPreamble(_)
DropPreamble(doc) ==
    IF doc = <<>> THEN <<>>
    ELSE IF IsPreambleLine(Head(doc)) THEN DropPreamble(Tail(doc))
    ELSE doc

\* the lines read since the last question header, that header first and
\* a trailer line left out
LinesSinceHeader ==
    SubSeq(consumed, block_start,
           IF TrailerRead THEN Len(consumed) - 1 ELSE Len(consumed))

\* C24: the lines before the first question header have no influence:
\* while no header has been read, no step changes the block, the number
\* or the questions, and the questions returned are those of the document
\* without its preamble; and once a header has been read the block holds
\* every line from that header on, as read and in order.
C24_PreambleIgnored ==
    /\ [][(~in_questions /\ ~in_questions') =>
             UNCHANGED <<current_block, question_num, questions>>]_vars
    /\ [](pc = "done" =>
             questions = SelectSeq(ParsedGroups(DropPreamble(consumed)),
                                   LAMBDA q : q # None))
    /\ [](in_questions => current_block = LinesSinceHeader)

\* a document with two preamble lines, then an indented header and its
\* block of three lines, has been parsed to one question
C24_Witness ==
    /\ pc = "done"
    /\ Len(consumed) >= 5
    /\ IsPreambleLine(consumed[1])
    /\ IsPreambleLine(consumed[2])
    /\ consumed[1] # consumed[2]
    /\ consumed[3] = LHeaderIndented
    /\ Len(current_block) = 3
    /\ Len(questions) = 1

\* what parse_question returns for the block without the correct-answer
\* lines before its last one: the locals as that line alone sets them
LastAlone ==
    Finish(CorrectLine([st EXCEPT !.correct_letters = <<>>,
                                  !.short_answer_text = <<>>],
                       last_correct),
           arg_num)

\* C26: of several correct-answer lines the last one wins: the options of
\* the question returned, with their marks, and its short answer are those
\* the last correct-answer line alone gives, nothing of an earlier
\* correct-answer line is kept.
C26_LastDeclarationWins ==
    (Returned /\ last_correct # <<>>) =>
        /\ result.options = LastAlone.options
        /\ result.short_answer = LastAlone.short_answer

\* the text of a correct-answer line after "> Correct Answer:"
AnswerOf(line) == Strip(CorrectMatch(Strip(line)).group)

\* a line of the form "> Correct Answer: <Letter>. <text>"
IsSingleForm(line) ==
    /\ QuoteMatch(Strip(line), P_Correct \o <<":">>).matched
    /\ Len(AnswerOf(line)) >= 4
    /\ AnswerOf(line)[1] \in OptionLetters
    /\ AnswerOf(line)[2] = "."
    /\ AnswerOf(line)[3] = " "

\* the positions of the options of the question returned with a letter
OptionsLettered(letter) ==
    {j \in 1..Len(result.options) : result.options[j].letter = letter}

\* C25: for a block without the short-answer flag whose only
\* correct-answer line is "> Correct Answer: <Letter>. <text>", where one
\* option of the block has the letter <Letter>, that option alone is
\* marked correct and the type is MC, whatever the text after the letter.
C25_SingleLetterSingleSelect ==
    (/\ Returned
     /\ ~flag_seen
     /\ correct_seen = 1
     /\ IsSingleForm(last_correct)
     /\ Cardinality(OptionsLettered(AnswerOf(last_correct)[1])) = 1)
    => /\ \A j \in 1..Len(result.options) :
              result.options[j].correct <=>
                  j \in OptionsLettered(AnswerOf(last_correct)[1])
       /\ result.type = "MC"

====
